---------------------------- MODULE Spec2Model ----------------------------
(***************************************************************************)
(* Model of the live-tracking pipeline of atc-scope-tracker: the two Vue   *)
(* components (the root component with the speed-based projection, and     *)
(* components/Map.vue with the fixed-length projection) share one          *)
(* getFlights pipeline: fetch, response.json(), the validMarkers filter,   *)
(* the directionLines map, and the timer / button / mount triggers.        *)
(*                                                                         *)
(* JavaScript values are records [t, v]: t is the type tag, v the payload. *)
(* Latitudes and longitudes are fixed-point numbers in units of 1e-4       *)
(* degree; tracks are degrees, speeds knots.                               *)
(***************************************************************************)
EXTENDS Integers, Sequences, FiniteSets

VARIABLES
    component,       \* which component is mounted: "App" or "Map"
    markers,         \* markers.value
    directionLines,  \* directionLines.value
    mapRef,          \* TRUE once mapRef.value?.leafletObject is available
    mounted,         \* onMounted has run (the interval timer is armed)
    issued,          \* number of getFlights calls started so far
    pc,              \* per getFlights call: where its async body is suspended
    lastData,        \* history: `data` of the call that completed last
                     \* (NoBody when it threw before response.json() resolved)
    markersRun,      \* history: the call that last assigned markers.value
    linesRun,        \* history: the call that last assigned directionLines.value
    errors,          \* number of console.error reports made by the catch block
    delivered        \* number of raw `ac` entries received so far

vars == <<component, markers, directionLines, mapRef, mounted, issued, pc,
          lastData, markersRun, linesRun, errors, delivered>>

store == <<markers, directionLines>>

\* Bounds of the model: the number of getFlights calls in a behaviour, and
\* the number of raw aircraft entries the upstream delivers in a behaviour
\* (in one response or spread over several).
MaxRuns == 2
MaxEntries == 2

Runs == 1..MaxRuns

-----------------------------------------------------------------------------
(* JavaScript values as they come out of JSON.parse.                       *)

Undefined == [t |-> "undefined", v |-> 0]
Null == [t |-> "null", v |-> 0]
Infinity == [t |-> "infinity", v |-> 0]      \* JSON.parse("1e999")
NaN == [t |-> "nan", v |-> 0]                \* only ever a result of Math.*
Num(n) == [t |-> "number", v |-> n]
Str(k) == [t |-> "string", v |-> k]          \* a non-empty, non-numeric string

\* ToBoolean: what `!x` and `x && ...` test.
Truthy(x) ==
    CASE x.t = "undefined" -> FALSE
      [] x.t = "null" -> FALSE
      [] x.t = "nan" -> FALSE
      [] x.t = "number" -> x.v # 0
      [] OTHER -> TRUE

\* The global isNaN: ToNumber(x) is NaN.  ToNumber(null) is 0, ToNumber of
\* undefined or of a non-numeric string is NaN, Infinity is not NaN.
isNaN(x) ==
    CASE x.t = "undefined" -> TRUE
      [] x.t = "nan" -> TRUE
      [] x.t = "string" -> TRUE
      [] OTHER -> FALSE

\* A finite number in the sense of Number.isFinite: what the data model of
\* the specification calls a finite real number.
IsFiniteNumber(x) == x.t = "number"

-----------------------------------------------------------------------------
(* The raw upstream payload.                                               *)

\* One element of the `ac` array.  An element that is not an object (null or
\* a primitive) has no properties: reading one from a primitive gives
\* undefined, reading one from null throws a TypeError.
Obj(hex, lat, lon, track, gs) ==
    [t |-> "object", hex |-> hex, lat |-> lat, lon |-> lon,
     track |-> track, gs |-> gs]
NullEntry ==
    [t |-> "null", hex |-> Undefined, lat |-> Undefined, lon |-> Undefined,
     track |-> Undefined, gs |-> Undefined]
NumberEntry ==
    [t |-> "number", hex |-> Undefined, lat |-> Undefined, lon |-> Undefined,
     track |-> Undefined, gs |-> Undefined]

HexVals == {Undefined, Str(1), Str(2)}
LatVals == {Undefined, Num(0), Num(600000), Infinity}
LonVals == {Undefined, Num(0), Num(-80000)}
TrackVals == {Undefined, Num(0), Num(90), Num(360), Infinity}
GsVals == {Undefined, Num(0), Num(120)}

\* A well-formed aircraft: hex "1", 60 N, 8 W, track 090, 120 kn.
GoodEntry == Obj(Str(1), Num(600000), Num(-80000), Num(90), Num(120))

Deviations(e) ==
    (IF e.hex # GoodEntry.hex THEN 1 ELSE 0)
    + (IF e.lat # GoodEntry.lat THEN 1 ELSE 0)
    + (IF e.lon # GoodEntry.lon THEN 1 ELSE 0)
    + (IF e.track # GoodEntry.track THEN 1 ELSE 0)
    + (IF e.gs # GoodEntry.gs THEN 1 ELSE 0)

\* The sampled raw entries: the well-formed aircraft, every entry that
\* differs from it in one field, and the two non-object elements.
Entries ==
    {e \in {Obj(h, la, lo, tr, g) : h \in HexVals, la \in LatVals,
            lo \in LonVals, tr \in TrackVals, g \in GsVals} :
        Deviations(e) <= 1}
    \cup {NullEntry, NumberEntry}

SeqsUpTo(S, n) == UNION {[1..k -> S] : k \in 0..n}

\* The value of data.ac: absent, null, a non-list primitive, or an array.
AcUndefined == [t |-> "undefined", items |-> <<>>]
AcNull == [t |-> "null", items |-> <<>>]
AcNumber == [t |-> "number", items |-> <<>>]
AcArray(s) == [t |-> "array", items |-> s]

AcVals(n) ==
    {AcUndefined, AcNull, AcNumber} \cup {AcArray(s) : s \in SeqsUpTo(Entries, n)}

\* What response.json() resolves to: the JSON literal null, or an object.
NullBody == [t |-> "null", ac |-> AcUndefined]
ObjBody(ac) == [t |-> "object", ac |-> ac]
\* The bodies whose `ac` array has at most n elements.
Bodies(n) == {NullBody} \cup {ObjBody(ac) : ac \in AcVals(n)}
NoBody == [t |-> "none", ac |-> AcUndefined]

-----------------------------------------------------------------------------
(* The projection.  Angles that enter Math.sin / Math.cos are radians in   *)
(* the code; here a great-circle distance is carried in nanoradians and    *)
(* converted to the fixed-point degrees of the coordinates, with pi taken  *)
(* as 355/113.  Tracks are sampled at multiples of 90 degrees, where sine  *)
(* and cosine are exact, and the result is rounded to 1e-4 degree.         *)

Abs(n) == IF n < 0 THEN -n ELSE n
Round(n, d) == (n + d \div 2) \div d

CosDeg(deg) ==
    CASE deg % 360 = 0 -> 1
      [] deg % 360 = 90 -> 0
      [] deg % 360 = 180 -> -1
      [] deg % 360 = 270 -> 0
SinDeg(deg) == CosDeg(deg + 270)

\* 1000 * cos(latitude), for the sampled latitudes (to the nearest degree).
CosLatMilli(lat) ==
    CASE Abs(Round(lat, 10000)) = 0 -> 1000
      [] Abs(Round(lat, 10000)) = 60 -> 500

\* nanoradians -> units of 1e-4 degree: x * 1e-9 * (180 / pi) * 1e4, that is
\* x * (180 * 113) / (355 * 100000), in lowest terms x * 1017 / 1775000.
RadToDeg(nrad) == Round(nrad * 1017, 1775000)

\* endLatRad / endLonRad: the spherical direct-position formula
\*   asin(sin p cos d + cos p sin d cos t),
\*   l + atan2(sin t sin d cos p, cos d - sin p sin(endLat))
\* from the point (lat, lon), along `track`, over the distance `nrad`.
\* Math.sin and Math.cos of an infinite argument are NaN.
Destination(lat, lon, track, nrad) ==
    IF ~(IsFiniteNumber(lat) /\ IsFiniteNumber(track))
    THEN <<NaN, NaN>>
    ELSE <<Num(lat.v + RadToDeg(nrad) * CosDeg(track.v)),
           IF IsFiniteNumber(lon)
           THEN Num(lon.v + Round(RadToDeg(nrad) * SinDeg(track.v) * 1000,
                                  CosLatMilli(lat.v)))
           ELSE IF lon.t = "infinity" THEN Infinity ELSE NaN>>

NullLine == [null |-> TRUE, line |-> <<>>]
Line(start, end) == [null |-> FALSE, line |-> <<start, end>>]

\* The root component: const speedInDegreesPerMinute = speed * 0.0003;
\* const distanceIn1Minute = speedInDegreesPerMinute / 90; (used as radians)
distanceIn1Minute(speed) == (speed.v * 300000) \div 90

\* The root component's projection with a start point moved along the track
\* (as components/Map.vue does) instead of [lat, lon].
calculateDirectionLineAppOffset(lat, lon, track, speed, map) ==
    IF ~Truthy(track) \/ isNaN(track) \/ ~Truthy(speed) \/ isNaN(speed)
    THEN NullLine
    ELSE IF ~map
    THEN NullLine
    ELSE IF ~IsFiniteNumber(speed)
    THEN Line(<<lat, lon>>, <<NaN, NaN>>)
    ELSE Line(Destination(lat, lon, track, 10000),
              Destination(lat, lon, track, distanceIn1Minute(speed)))

\* calculateDirectionLine(lat, lon, track, speed) of the root component;
\* map is mapRef.value?.leafletObject.
calculateDirectionLineApp(lat, lon, track, speed, map) ==
    IF ~Truthy(track) \/ isNaN(track) \/ ~Truthy(speed) \/ isNaN(speed)
    THEN NullLine
    ELSE IF ~map
    THEN NullLine
    ELSE IF ~IsFiniteNumber(speed)
    THEN Line(<<lat, lon>>, <<NaN, NaN>>)
    ELSE Line(<<lat, lon>>, Destination(lat, lon, track, distanceIn1Minute(speed)))

\* components/Map.vue: let size = -0.0002; const startDistance = 0.00001;
\* distance = 0.001 (all radians, here nanoradians).
size == -200000
startDistance == 10000
distance == 1000000

\* calculateDirectionLine(lat, lon, track) of components/Map.vue: the start
\* point is moved startDistance along the track, the end point a further
\* distance - size.
calculateDirectionLineMap(lat, lon, track) ==
    IF ~Truthy(track) \/ isNaN(track)
    THEN NullLine
    ELSE LET start == Destination(lat, lon, track, startDistance)
         IN  Line(start, Destination(start[1], start[2], track, distance - size))

calculateDirectionLine(comp, lat, lon, track, speed, map) ==
    IF comp = "App"
    THEN calculateDirectionLineApp(lat, lon, track, speed, map)
    ELSE calculateDirectionLineMap(lat, lon, track)

-----------------------------------------------------------------------------
(* getFlights: the synchronous part that runs once response.json() has     *)
(* resolved.                                                               *)

\* (marker) => marker.lat && marker.lon && !isNaN(marker.lat) && !isNaN(marker.lon)
ValidMarker(marker) ==
    Truthy(marker.lat) /\ Truthy(marker.lon)
    /\ ~isNaN(marker.lat) /\ ~isNaN(marker.lon)

\* data.ac?.filter(...) throws a TypeError when data is null (data.ac), when
\* data.ac is neither nullish nor an array (filter is not a function), and
\* when an element is null (marker.lat).
FilterThrows(data) ==
    \/ data.t = "null"
    \/ data.ac.t = "number"
    \/ /\ data.ac.t = "array"
       /\ \E i \in 1..Len(data.ac.items) : data.ac.items[i].t = "null"

RECURSIVE Reverse(_)
Reverse(q) == IF q = <<>> THEN <<>> ELSE Reverse(Tail(q)) \o <<Head(q)>>

\* A filter that collects the surviving entries by unshift instead of push.
validMarkersReversed(data) ==
    IF data.ac.t = "array"
    THEN Reverse(SelectSeq(data.ac.items, ValidMarker))
    ELSE <<>>

\* A filter whose loop starts at index 1: the first element is skipped.
validMarkersFromSecond(data) ==
    IF data.ac.t = "array" /\ data.ac.items # <<>>
    THEN SelectSeq(Tail(data.ac.items), ValidMarker)
    ELSE <<>>

\* const validMarkers = data.ac?.filter(...) || [];
validMarkers(data) ==
    IF data.ac.t = "array" THEN SelectSeq(data.ac.items, ValidMarker) ELSE <<>>

\* The callback of validMarkers.map: null unless marker.track is truthy and
\* calculateDirectionLine returns a line.
linePoints(comp, marker, map) ==
    IF Truthy(marker.track)
    THEN calculateDirectionLine(comp, marker.lat, marker.lon, marker.track,
                                marker.gs, map)
    ELSE NullLine

\* A derivation that collects the segments by unshift: the list comes out in
\* the reverse of the records' order.
directionLinesOfReversed(comp, valid, map) ==
    LET mapped == [i \in 1..Len(valid) |->
                      [hex |-> valid[i].hex,
                       calc |-> linePoints(comp, valid[i], map)]]
        kept == Reverse(SelectSeq(mapped, LAMBDA x : ~x.calc.null))
    IN  [i \in 1..Len(kept) |-> [hex |-> kept[i].hex, line |-> kept[i].calc.line]]

\* validMarkers.map(...).filter((line) => line !== null)
directionLinesOf(comp, valid, map) ==
    LET mapped == [i \in 1..Len(valid) |->
                      [hex |-> valid[i].hex,
                       calc |-> linePoints(comp, valid[i], map)]]
        kept == SelectSeq(mapped, LAMBDA x : ~x.calc.null)
    IN  [i \in 1..Len(kept) |-> [hex |-> kept[i].hex, line |-> kept[i].calc.line]]

-----------------------------------------------------------------------------
(* The state machine.                                                      *)

Init ==
    /\ component \in {"App", "Map"}
    /\ markers = <<>>
    /\ directionLines = <<>>
    /\ mapRef = FALSE
    /\ mounted = FALSE
    /\ issued = 0
    /\ pc = [r \in Runs |-> "none"]
    /\ lastData = NoBody
    /\ markersRun = 0
    /\ linesRun = 0
    /\ errors = 0
    /\ delivered = 0

\* A getFlights that empties the display while the request is pending.
getFlightsResetting ==
    /\ issued < MaxRuns
    /\ issued' = issued + 1
    /\ pc' = [pc EXCEPT ![issued + 1] = "fetch"]
    /\ markers' = <<>>
    /\ directionLines' = <<>>
    /\ UNCHANGED <<component, mapRef, lastData, markersRun, linesRun, errors,
                   delivered>>

\* A call of getFlights runs synchronously up to `await fetch(...)`.
getFlights ==
    /\ issued < MaxRuns
    /\ issued' = issued + 1
    /\ pc' = [pc EXCEPT ![issued + 1] = "fetch"]
    /\ UNCHANGED <<component, markers, directionLines, mapRef, lastData,
                   markersRun, linesRun, errors, delivered>>

\* onMounted(() => { getFlights(); startPeriodicUpdates(); })
onMounted ==
    /\ ~mounted
    /\ mounted' = TRUE
    /\ getFlights

\* A timer that is cleared by the first reported failure.
startPeriodicUpdatesUntilError ==
    /\ mounted
    /\ errors = 0
    /\ getFlights
    /\ UNCHANGED mounted

\* The setInterval callback armed by startPeriodicUpdates.
startPeriodicUpdates ==
    /\ mounted
    /\ getFlights
    /\ UNCHANGED mounted

\* A click handler that empties the display before it refreshes.
updateMapClearing ==
    /\ mounted
    /\ issued < MaxRuns
    /\ issued' = issued + 1
    /\ pc' = [pc EXCEPT ![issued + 1] = "fetch"]
    /\ markers' = <<>>
    /\ directionLines' = <<>>
    /\ UNCHANGED <<component, mapRef, mounted, lastData, markersRun, linesRun,
                   errors, delivered>>

\* The click handler of the "Update Aircraft Positions" button.
updateMap ==
    /\ mounted
    /\ getFlights
    /\ UNCHANGED mounted

\* The map widget finishes its own asynchronous set-up: leafletObject is set.
LeafletReady ==
    /\ mounted
    /\ ~mapRef
    /\ mapRef' = TRUE
    /\ UNCHANGED <<component, markers, directionLines, mounted, issued, pc,
                   lastData, markersRun, linesRun, errors, delivered>>

\* A catch block that also empties the display.
CatchClearsStore(r) ==
    /\ pc' = [pc EXCEPT ![r] = "failed"]
    /\ errors' = errors + 1
    /\ markers' = <<>>
    /\ directionLines' = <<>>
    /\ UNCHANGED <<markersRun, linesRun>>

\* An empty catch block: the error is swallowed without a report.
CatchSilent(r) ==
    /\ pc' = [pc EXCEPT ![r] = "failed"]
    /\ UNCHANGED <<markers, directionLines, markersRun, linesRun, errors>>

\* catch (err) { console.error("Failed to fetch aircraft data:", err); }
Catch(r) ==
    /\ pc' = [pc EXCEPT ![r] = "failed"]
    /\ errors' = errors + 1
    /\ UNCHANGED <<markers, directionLines, markersRun, linesRun>>

\* The assignment of directionLines.value is lost (the map callback throws,
\* or the call is suspended between the two assignments).
ReplaceMarkersOnly(r, valid, lines) ==
    /\ markers' = valid
    /\ markersRun' = r
    /\ pc' = [pc EXCEPT ![r] = "done"]
    /\ UNCHANGED <<directionLines, linesRun, errors>>

\* The new records and segments are appended to the previous snapshot.
ReplaceMerging(r, valid, lines) ==
    /\ markers' = markers \o valid
    /\ directionLines' = directionLines \o lines
    /\ markersRun' = r
    /\ linesRun' = r
    /\ pc' = [pc EXCEPT ![r] = "done"]
    /\ UNCHANGED errors

\* markers.value = validMarkers; directionLines.value = validMarkers.map(...)...
\* Nothing is awaited between the two assignments.
Replace(r, valid, lines) ==
    /\ markers' = valid
    /\ directionLines' = lines
    /\ markersRun' = r
    /\ linesRun' = r
    /\ pc' = [pc EXCEPT ![r] = "done"]
    /\ UNCHANGED errors

\* await fetch(...) rejects: the network is unreachable.
FetchReject(r) ==
    /\ pc[r] = "fetch"
    /\ Catch(r)
    /\ lastData' = NoBody
    /\ UNCHANGED <<component, mapRef, mounted, issued, delivered>>

\* The response arrives with !response.ok: throw new Error(...).
FetchNotOk(r) ==
    /\ pc[r] = "fetch"
    /\ Catch(r)
    /\ lastData' = NoBody
    /\ UNCHANGED <<component, mapRef, mounted, issued, delivered>>

\* The response arrives with response.ok: the call suspends again at
\* `await response.json()`.
FetchOk(r) ==
    /\ pc[r] = "fetch"
    /\ pc' = [pc EXCEPT ![r] = "json"]
    /\ UNCHANGED <<component, markers, directionLines, mapRef, mounted, issued,
                   lastData, markersRun, linesRun, errors, delivered>>

\* response.json() rejects: the body is not JSON.
JsonReject(r) ==
    /\ pc[r] = "json"
    /\ Catch(r)
    /\ lastData' = NoBody
    /\ UNCHANGED <<component, mapRef, mounted, issued, delivered>>

\* response.json() resolves to `data`; the rest of the try block runs
\* without suspending.
JsonResolve(r, data) ==
    /\ pc[r] = "json"
    /\ delivered + Len(data.ac.items) <= MaxEntries
    /\ delivered' = delivered + Len(data.ac.items)
    /\ lastData' = data
    /\ IF FilterThrows(data)
       THEN Catch(r)
       ELSE Replace(r, validMarkers(data),
                    directionLinesOf(component, validMarkers(data), mapRef))
    /\ UNCHANGED <<component, mapRef, mounted, issued>>

Next ==
    \/ onMounted
    \/ startPeriodicUpdates
    \/ updateMap
    \/ LeafletReady
    \/ \E r \in Runs : FetchReject(r)
    \/ \E r \in Runs : FetchNotOk(r)
    \/ \E r \in Runs : FetchOk(r)
    \/ \E r \in Runs : JsonReject(r)
    \/ \E r \in Runs, data \in Bodies(MaxEntries - delivered) : JsonResolve(r, data)

Spec == Init /\ [][Next]_vars

TypeOK ==
    /\ component \in {"App", "Map"}
    /\ mapRef \in BOOLEAN
    /\ mounted \in BOOLEAN
    /\ issued \in 0..MaxRuns
    /\ pc \in [Runs -> {"none", "fetch", "json", "done", "failed"}]
    /\ markersRun \in 0..MaxRuns
    /\ linesRun \in 0..MaxRuns
    /\ errors \in 0..MaxRuns
    /\ delivered \in 0..MaxEntries
    /\ Len(markers) <= MaxEntries
    /\ Len(directionLines) <= Len(markers)
    /\ lastData \in Bodies(MaxEntries) \cup {NoBody}

-----------------------------------------------------------------------------
(* Vocabulary of the properties.                                           *)

InFlight == {r \in Runs : pc[r] \in {"fetch", "json"}}

\* Run r leaves its await in this step.
Completes(r) == pc[r] \in {"fetch", "json"} /\ pc'[r] \in {"done", "failed"}

\* Run r resumes from response.json() with a parsed body in this step.
Parsed(r) == pc[r] = "json" /\ pc'[r] \in {"done", "failed"} /\ lastData' # NoBody

\* A record as the data model requires it: an id and a finite position.
WellFormed(e) ==
    /\ e.t = "object"
    /\ e.hex.t = "string"
    /\ IsFiniteNumber(e.lat)
    /\ IsFiniteNumber(e.lon)

HasHeadingData(e) == IsFiniteNumber(e.track) /\ IsFiniteNumber(e.gs)

Range(s) == {s[i] : i \in DOMAIN s}

-----------------------------------------------------------------------------
(* C1: a getFlights call that fails at the fetch step (fetch rejects, the   *)
(* status is not ok, or response.json() rejects) leaves markers and         *)
(* directionLines exactly as they were before the step.                     *)
C1_FetchFailureKeepsSnapshot ==
    [][\A r \in Runs :
          (Completes(r) /\ pc'[r] = "failed" /\ lastData' = NoBody)
              => (markers' = markers /\ directionLines' = directionLines)]_vars

\* A fetch-step failure is the last thing that happened, and the snapshot of
\* an earlier successful call is still exposed.
C1_Witness ==
    /\ lastData = NoBody
    /\ errors > 0
    /\ markersRun # 0
    /\ markers # <<>>
    /\ directionLines # <<>>

(* C2: results are never applied out of issue order: the call that writes  *)
(* the store is always later-issued than the call that wrote it before.    *)
C2_AppliedInIssueOrder ==
    [][markersRun' # markersRun => markersRun' > markersRun]_vars

(* C3: at most one getFlights call is in flight (awaiting fetch or         *)
(* response.json()) at any time.                                           *)
C3_AtMostOneInFlight == Cardinality(InFlight) <= 1

(* C4: in every state (every point where another task can run) markers    *)
(* and directionLines were written by the same call, and the segments are  *)
(* the ones derived from the stored records.                               *)
C4_SnapshotAtomic ==
    /\ markersRun = linesRun
    /\ \E map \in BOOLEAN :
          directionLines = directionLinesOf(component, markers, map)

\* A snapshot with segments was written while another call is suspended.
C4_Witness ==
    /\ markersRun # 0
    /\ InFlight # {}
    /\ markers # <<>>
    /\ directionLines # <<>>

(* C5: a successful call replaces the snapshot without merging: afterwards *)
(* markers is exactly the validated entries of that call's response,       *)
(* directionLines exactly the segments derived from them, and every stored *)
(* record and segment comes from that response.                            *)
C5_FullReplace ==
    [][\A r \in Runs :
          (Completes(r) /\ pc'[r] = "done")
              => /\ markers' = validMarkers(lastData')
                 /\ directionLines' = directionLinesOf(component, markers', mapRef)
                 /\ Range(markers') \subseteq Range(lastData'.ac.items)
                 /\ \A l \in Range(directionLines') :
                       \E e \in Range(lastData'.ac.items) : e.hex = l.hex]_vars

\* Two calls succeeded, the later one last, and its one-record snapshot is
\* all that is stored although two entries were delivered in all.
C5_Witness ==
    /\ \A r \in 1..2 : pc[r] = "done"
    /\ markersRun = 2
    /\ delivered = 2
    /\ Len(lastData.ac.items) = 1
    /\ Len(markers) = 1

(* C6: a body that parses but whose top-level shape is unexpected (`ac`    *)
(* absent, null or not a list) is handled as a failure: the call reports   *)
(* it and leaves markers and directionLines unchanged.                     *)
C6_MalformedPayloadIsFailure ==
    [][\A r \in Runs :
          (Parsed(r) /\ lastData'.ac.t # "array")
              => /\ pc'[r] = "failed"
                 /\ markers' = markers
                 /\ directionLines' = directionLines]_vars

(* C7: a malformed element of the `ac` list (also null or a non-object) is *)
(* dropped without an error, and every well-formed element of the same     *)
(* response is stored by that call.                                        *)
C7_ValidationTotalPerRecord ==
    [][\A r \in Runs :
          (Parsed(r) /\ lastData'.ac.t = "array")
              => /\ pc'[r] = "done"
                 /\ \A e \in Range(lastData'.ac.items) :
                       WellFormed(e) => e \in Range(markers')]_vars

(* C8: every stored record has an id (hex) and a finite latitude and       *)
(* longitude.                                                              *)
C8_StoredRecordsValid ==
    \A m \in Range(markers) :
        m.hex # Undefined /\ IsFiniteNumber(m.lat) /\ IsFiniteNumber(m.lon)

(* C9: calculateDirectionLine returns null for a record whose track or     *)
(* ground speed is missing or not finite, and every stored segment belongs *)
(* to a record that has both.                                              *)
C9_SegmentOnlyWithHeadingData ==
    /\ \A m \in Range(markers) :
          ~HasHeadingData(m)
              => calculateDirectionLine(component, m.lat, m.lon, m.track,
                                        m.gs, mapRef).null
    /\ \A l \in Range(directionLines) :
          \E m \in Range(markers) : m.hex = l.hex /\ HasHeadingData(m)

(* C10: every stored record whose track and ground speed are finite        *)
(* numbers (0 included) has a heading segment in the same snapshot.        *)
C10_SegmentForEveryHeading ==
    \A m \in Range(markers) :
        HasHeadingData(m) => \E l \in Range(directionLines) : l.hex = m.hex

(* C11: for a record with a finite position and track and ground speed 0,  *)
(* calculateDirectionLine (with the map widget available) returns a        *)
(* non-null segment whose end point equals its start point.                *)
C11_ZeroSpeedDegenerate ==
    \A m \in Range(markers) :
        (IsFiniteNumber(m.lat) /\ IsFiniteNumber(m.lon)
         /\ IsFiniteNumber(m.track) /\ m.gs = Num(0))
            => LET c == calculateDirectionLine(component, m.lat, m.lon,
                                               m.track, m.gs, TRUE)
               IN  ~c.null /\ c.line[2] = c.line[1]

C13_UniqueIds ==
    /\ \A i, j \in DOMAIN markers :
          i # j => markers[i].hex # markers[j].hex
    /\ \A i, j \in DOMAIN directionLines :
          i # j => directionLines[i].hex # directionLines[j].hex

(* C14: no failure is fatal to the refresh loop: once calls have failed,   *)
(* every failure has been caught and reported by the catch block, the      *)
(* interval timer is still armed, and its next tick issues a new call      *)
(* (as long as the model's budget of calls lasts).                         *)
C14_FailuresNotFatal ==
    errors > 0 =>
        /\ mounted
        /\ errors = Cardinality({r \in Runs : pc[r] = "failed"})
        /\ \A r \in Runs : pc[r] = "none" <=> r > issued
        /\ issued < MaxRuns => ENABLED startPeriodicUpdates

\* A call has failed and the timer can fire again.
C14_Witness ==
    /\ errors > 0
    /\ issued < MaxRuns
    /\ InFlight = {}
    /\ ENABLED startPeriodicUpdates

(* C15: the manual trigger runs the same pipeline as a timer tick: a step  *)
(* of updateMap is a step of the timer callback and conversely, and it     *)
(* leaves the snapshot and the armed timer as they are.                    *)
C15_ManualSameAsTick ==
    [][/\ updateMap <=> startPeriodicUpdates
       /\ updateMap => UNCHANGED <<markers, directionLines, mounted, errors>>]_vars

\* A call issued after the one of onMounted, by the button or the timer,
\* has replaced the snapshot.
C15_Witness ==
    /\ mounted
    /\ issued >= 2
    /\ markersRun >= 2
    /\ markers # <<>>

(* C16: each call issues one fetch and then either writes the store once   *)
(* and reports nothing, or reports one failure and writes nothing; a call  *)
(* that has returned does nothing more.                                    *)
C16_RunLifecycle ==
    [][\A r \in Runs :
          /\ pc'[r] # pc[r] =>
                \/ pc[r] = "none" /\ pc'[r] = "fetch"
                \/ pc[r] = "fetch" /\ pc'[r] \in {"json", "failed"}
                \/ pc[r] = "json" /\ pc'[r] \in {"done", "failed"}
          /\ (Completes(r) /\ pc'[r] = "done") =>
                markersRun' = r /\ linesRun' = r /\ errors' = errors
          /\ (Completes(r) /\ pc'[r] = "failed") =>
                /\ errors' = errors + 1
                /\ UNCHANGED <<markers, directionLines, markersRun, linesRun>>
          /\ (\A q \in Runs : ~Completes(q)) =>
                UNCHANGED <<markers, directionLines, markersRun, linesRun, errors>>]_vars

\* One call has written the store and another has reported a failure.
C16_Witness ==
    /\ \E r \in Runs : pc[r] = "done" /\ markersRun = r
    /\ \E r \in Runs : pc[r] = "failed"
    /\ errors = 1
    /\ InFlight = {}

(* C17: the validator drops nothing but invalid entries: after a call has  *)
(* stored its response, every raw entry with an id and a finite latitude   *)
(* and longitude (0 included) is among the stored records.                 *)
C17_ValidEntriesKept ==
    [][\A r \in Runs :
          (Completes(r) /\ pc'[r] = "done")
              => \A e \in Range(lastData'.ac.items) :
                    WellFormed(e) => e \in Range(markers')]_vars

\* a is b with some elements left out: same elements, same relative order.
IsSubsequence(a, b) ==
    \E f \in [1..Len(a) -> 1..Len(b)] :
        /\ \A i \in 1..Len(a) : a[i] = b[f[i]]
        /\ \A i, j \in 1..Len(a) : i < j => f[i] < f[j]

(* C18: the stored records are a subsequence of the raw aircraft list:     *)
(* the surviving entries are unmodified, in their input order, none added  *)
(* or duplicated, and never more than the raw entries.                     *)
C18_RecordsSubsequence ==
    [][\A r \in Runs :
          (Completes(r) /\ pc'[r] = "done" /\ lastData'.ac.t = "array")
              => /\ IsSubsequence(markers', lastData'.ac.items)
                 /\ Len(markers') <= Len(lastData'.ac.items)]_vars

\* A response with two different valid entries has been stored, or one with
\* an invalid entry ahead of a valid one.
C18_Witness ==
    /\ \E r \in Runs : pc[r] = "done" /\ markersRun = r
    /\ lastData.ac.t = "array"
    /\ Len(lastData.ac.items) = 2
    /\ \/ Len(markers) = 2 /\ markers[1] # markers[2]
       \/ Len(markers) = 1 /\ markers[1] = lastData.ac.items[2]
                           /\ markers[1] # lastData.ac.items[1]

(* C19: validation is idempotent: filtering the output of the filter,      *)
(* wrapped again under `ac`, returns the same list, for every body a call  *)
(* has parsed without a TypeError.                                         *)
C19_ValidationIdempotent ==
    [][\A r \in Runs :
          (Parsed(r) /\ ~FilterThrows(lastData'))
              => LET once == validMarkers(lastData')
                     again == ObjBody(AcArray(once))
                 IN  ~FilterThrows(again) /\ validMarkers(again) = once]_vars

\* A body with a valid and an invalid entry has been filtered and stored.
C19_Witness ==
    /\ \E r \in Runs : pc[r] = "done" /\ markersRun = r
    /\ lastData.ac.t = "array"
    /\ Len(lastData.ac.items) = 2
    /\ Len(markers) = 1

(* C20: track is periodic modulo 360: for a stored record with a finite    *)
(* track t, calculateDirectionLine (with the map widget available) gives   *)
(* the same outcome for t, t + 360 and t - 360.                            *)
C20_TrackPeriodic ==
    \A m \in Range(markers) :
        IsFiniteNumber(m.track) =>
            \A k \in {-1, 1} :
                calculateDirectionLine(component, m.lat, m.lon,
                                       Num(m.track.v + 360 * k), m.gs, TRUE)
                = calculateDirectionLine(component, m.lat, m.lon, m.track,
                                         m.gs, TRUE)


(* C21: the projection is a pure function of its arguments: across every   *)
(* step of the program, calculateDirectionLine gives the same result for   *)
(* the same (lat, lon, track, speed), whatever has happened to the map     *)
(* widget handle or any other state in between.                            *)
C21_ProjectionPure ==
    [][\A m \in Range(markers) \cup {GoodEntry} :
          calculateDirectionLine(component, m.lat, m.lon, m.track, m.gs, mapRef')
          = calculateDirectionLine(component, m.lat, m.lon, m.track, m.gs, mapRef)]_vars

(* C22: markers and directionLines are written only by the success path of *)
(* a getFlights call: every step that changes them is a call resuming from *)
(* response.json() into "done"; a call being issued (by onMounted,         *)
(* updateMap or the timer callback), a call failing and the map widget     *)
(* becoming ready leave both unchanged.                                    *)
C22_StoreWrittenOnlyBySuccess ==
    [][/\ store' # store => \E r \in Runs : pc[r] = "json" /\ pc'[r] = "done"
       /\ issued' # issued => store' = store
       /\ mapRef' # mapRef => store' = store
       /\ \A r \in Runs :
             (Completes(r) /\ pc'[r] = "failed") => store' = store]_vars

\* The first call has stored a snapshot; since then the map widget became
\* ready and a second call was issued and failed, and the snapshot is the
\* first call's.
C22_Witness ==
    /\ markersRun = 1
    /\ linesRun = 1
    /\ markers # <<>>
    /\ mapRef
    /\ issued = 2
    /\ pc[2] = "failed"

\* The angle flown in one minute at `speed` knots, in nanoradians: speed / 60
\* minutes of arc, that is speed * pi / (180 * 60 * 60) rad, or 4848.137
\* nanoradians per knot.
ArcOfOneMinute(speed) == speed.v * 4848 + (speed.v * 137) \div 1000

(* C23: the projected end point is the spherical direct-position result    *)
(* from the record's position along its track over the angle flown in one  *)
(* minute at its ground speed (speed / 60 minutes of arc), with no further *)
(* offset: for every stored record with a finite position and a finite     *)
(* non-zero track and ground speed.                                        *)
C23_EndPointKnotMinute ==
    \A m \in Range(markers) :
        (/\ IsFiniteNumber(m.lat) /\ IsFiniteNumber(m.lon)
         /\ HasHeadingData(m) /\ m.track.v # 0 /\ m.gs.v # 0)
        => LET c == calculateDirectionLine(component, m.lat, m.lon, m.track,
                                           m.gs, TRUE)
           IN  /\ ~c.null
               /\ c.line[2] = Destination(m.lat, m.lon, m.track,
                                          ArcOfOneMinute(m.gs))

(* C24: in every reachable state the segments follow the records: there is *)
(* a strictly increasing map from the positions of directionLines to the   *)
(* positions of markers under which every segment carries the id of its    *)
(* record (so every segment has a record, no record position has two       *)
(* segments, and the relative order is the records').                      *)
C24_SegmentsFollowRecords ==
    \E f \in [DOMAIN directionLines -> DOMAIN markers] :
        /\ \A i, j \in DOMAIN directionLines : i < j => f[i] < f[j]
        /\ \A i \in DOMAIN directionLines : directionLines[i].hex = markers[f[i]].hex

\* Two records with different ids are stored, each with its segment.
C24_Witness ==
    /\ Len(markers) = 2
    /\ Len(directionLines) = 2
    /\ directionLines[1].hex # directionLines[2].hex

=============================================================================
